---- MODULE Spec2Model ----
(***************************************************************************)
(* A model of the graph-compilation caches of onediff:                     *)
(*                                                                         *)
(*   - OneFlowStableDiffusionPipeline (pipeline_stable_diffusion_oneflow): *)
(*     the unet graph cache `unet_graphs`, keyed by (height, width), with  *)
(*     its recency counter and its configured size;                        *)
(*   - OneflowDeployableModule (infer_compiler/oneflow/deployable_module): *)
(*     the single held graph `_deployable_module_dpl_graph`;               *)
(*   - the web UI script (onediff_sd_webui_extensions/scripts/onediff):    *)
(*     the global compiled unet and its swap around process_images.        *)
(*                                                                         *)
(* The objects live in different packages and share no state.  A behaviour *)
(* exercises one of them, chosen by `component` in the initial state, so   *)
(* the reachable states are the union of the objects' states and not their *)
(* product.  Spec covers the pipeline and the module called one operation  *)
(* at a time; ModuleSpec the module alone; ConcurrentSpec two threads in   *)
(* the cache step of one pipeline; WebuiSpec the web UI script.            *)
(***************************************************************************)
EXTENDS Integers, Sequences, FiniteSets, TLC

\* Bounds of the model.
MaxCalls == 3        \* pipeline calls that reach the cache step
MaxCacheSize == 2    \* largest value given to set_unet_graphs_cache_size
MaxBuilds == 3       \* graphs a deployable module may construct
MaxRequests == 3     \* requests the nodes may make of OptimizerScheduler
MaxPatches == 3      \* CrossAttentionPatch objects the hijacks may construct
MaxDepth == 2        \* onediff_mock_torch contexts entered and not yet exited

VARIABLES
    component,                    \* "pipeline" or "module": the object exercised
    \* --- OneFlowStableDiffusionPipeline fields (__init__, lines 170-174)
    unet_graphs,                  \* dict (height, width) -> (time, graph)
    unet_graphs_cache_size,
    unet_graphs_lru_cache_time,
    text_encoder_graph,           \* TRUE iff self.text_encoder_graph is not None
    vae_graph,                    \* TRUE iff self.vae_graph is not None
    \* --- observation of the pipeline (not fields of the program)
    n_unet_graphs,                \* graph objects constructed so far (object identity)
    last,                         \* what the last pipeline operation did
    hist,                         \* the compile_unet calls so far, while `steady`
    steady,                       \* no call failed and the size was not changed after the first call
    first_sig,                    \* signature of the first compile_unet call, while same_sig
    same_sig,                     \* every compile_unet call so far had the same signature
    n_inserted,                   \* graphs stored in unet_graphs so far
    \* --- OneflowDeployableModule fields (__init__, lines 28-33)
    use_graph,                    \* _deployable_module_use_graph
    dpl_graph,                    \* _deployable_module_dpl_graph: 0 is None, else the graph object
    graph_file,                   \* _deployable_module_options.get("graph_file")
    load_graph_first_run,         \* _load_graph_first_run
    device,                       \* device of the wrapped module's parameters
    \* --- observation of the module (not fields of the program)
    n_dpl_graphs,                 \* graph objects get_oneflow_graph returned so far
    built_since_clear,            \* of these, since the last _clear_old_graph
    dm_last,                      \* what the last module operation did
    \* --- two threads of a host calling one pipeline (lines 384-415)
    callers,                      \* per thread: where it is in the cache step, its key, its graph
    \* --- the web UI script (onediff_sd_webui_extensions/scripts/onediff.py)
    sd_model_checkpoint,          \* shared.opts.sd_model_checkpoint, the selected checkpoint
    diffusion_model,              \* shared.sd_model.model.diffusion_model: "original" or "compiled"
    compiled_unet,                \* global compiled_unet (lines 31, 207)
    compiled_ckpt_name,           \* global compiled_ckpt_name (lines 32, 210)
    current_type,                 \* Script.current_type (line 109)
    convname_dict,                \* Script.convname_dict (line 110)
    run_pc,                       \* where Script.run is: "idle", "entered", "processing"
    run_quantization,             \* the quantization argument of the run in progress
    run_last,                     \* how the last step of Script.run ended
    \* --- the ComfyUI nodes (onediff_comfy_nodes/extras_nodes/nodes_oneflow_optimizer.py)
    compile_requests,             \* the requests the nodes made of OptimizerScheduler, in order
    \* --- several OneflowDeployableModule instances and their options dicts
    instances,                    \* per instance: its options dict, its graph, its first-run flag
    options_objects,              \* per dict object: the value under "graph_file"
    inst_last,                    \* the last operation on an instance
    \* --- Script.check_model_structure_change with the model's flags spelled out
    recorded_type,                \* Script.current_type as a dict of the four flags
    check_last,                   \* the last call: its model, the type it found, its result
    \* --- the oneflow replacements of set_model_patch_replace (IPAdapterPlus.py, InstantID.py)
    cache_dict,                   \* the patch cache of the diffusion model: key -> patch, 0 for none
    patches_replace,              \* per model: to["patches_replace"]["attn2"], key -> patch, 0 for none
    patch_cache,                  \* per patch: whether set_cache(id(patch), ...) was called on it
    n_patches,                    \* CrossAttentionPatch objects constructed so far
    hijack_last,                  \* the last call of a replacement
    \* --- onediff_mock_torch (mock_torch_context.py)
    flow_version,                 \* flow.__version__
    sys_modules,                  \* the keys of sys.modules
    mock_contexts,                \* the contexts entered and not exited, innermost first
    mock_last                     \* the last exit of a context

pipe_vars == <<unet_graphs, unet_graphs_cache_size, unet_graphs_lru_cache_time,
               text_encoder_graph, vae_graph, n_unet_graphs, last, hist, steady,
               first_sig, same_sig, n_inserted>>

dm_vars == <<use_graph, dpl_graph, graph_file, load_graph_first_run, device,
             n_dpl_graphs, built_since_clear, dm_last>>

web_vars == <<sd_model_checkpoint, diffusion_model, compiled_unet, compiled_ckpt_name,
              current_type, convname_dict, run_pc, run_quantization, run_last>>

node_vars == <<compile_requests>>

inst_vars == <<instances, options_objects, inst_last>>

type_vars == <<recorded_type, check_last>>

hijack_vars == <<cache_dict, patches_replace, patch_cache, n_patches, hijack_last>>

mock_vars == <<flow_version, sys_modules, mock_contexts, mock_last>>

misc_vars == <<type_vars, hijack_vars, mock_vars>>

ext_vars == <<callers, web_vars, node_vars, inst_vars, misc_vars>>

vars == <<component, pipe_vars, dm_vars, ext_vars>>

----------------------------------------------------------------------------
(* Inputs of OneFlowStableDiffusionPipeline.__call__ *)

\* prompt: a str, a list of two strings, or a value that is neither.
Prompts == { [type |-> "str", len |-> 1],
             [type |-> "list", len |-> 2],
             [type |-> "int", len |-> 0] }

\* height: four multiples of 8 and one value that is not; width: the default.
Heights == {512, 640, 768, 1024, 516}
Widths == {512}

\* latents: not supplied (or supplied with the expected shape), or supplied with
\* another shape.
LatentsArgs == {"none", "other_shape"}

\* The argument lists of __call__ that are explored.  The arguments that decide
\* the unet graph (prompt, height, guidance, unrolled_timesteps) vary over the
\* compile_unet calls, each call departing from the defaults in at most one of
\* them; the flags of the other two graphs vary over the eager calls; each
\* rejected argument comes with the others at their defaults.
CallArgs ==
    {a \in [prompt : {p \in Prompts : p.type # "int"},
            height : {h \in Heights : h % 8 = 0},
            width : Widths, cfg : BOOLEAN, latents : {"none"},
            compile_text_encoder : {TRUE}, compile_unet : {TRUE},
            compile_vae : {TRUE}, unrolled : BOOLEAN] :
        \* the defaults (str prompt, height 512, guidance on, not unrolled) with at
        \* most one of them changed
        Cardinality({x \in {"prompt", "height", "cfg", "unrolled"} :
                        \/ x = "prompt" /\ a.prompt.type = "list"
                        \/ x = "height" /\ a.height # 512
                        \/ x = "cfg" /\ ~a.cfg
                        \/ x = "unrolled" /\ a.unrolled}) <= 1}
    \cup
    [prompt : {p \in Prompts : p.type = "str"}, height : {512},
     width : Widths, cfg : {TRUE}, latents : {"none"},
     compile_text_encoder : BOOLEAN, compile_unet : {FALSE},
     compile_vae : BOOLEAN, unrolled : BOOLEAN]
    \cup
    [prompt : {p \in Prompts : p.type = "int"}, height : {512}, width : Widths,
     cfg : {TRUE}, latents : {"none"}, compile_text_encoder : {TRUE},
     compile_unet : BOOLEAN, compile_vae : {TRUE}, unrolled : {FALSE}]
    \cup
    [prompt : {p \in Prompts : p.type = "str"}, height : {h \in Heights : h % 8 # 0},
     width : Widths, cfg : {TRUE}, latents : {"none"}, compile_text_encoder : {TRUE},
     compile_unet : BOOLEAN, compile_vae : {TRUE}, unrolled : {FALSE}]
    \cup
    [prompt : {p \in Prompts : p.type = "str"}, height : {512}, width : Widths,
     cfg : {TRUE}, latents : {"other_shape"}, compile_text_encoder : BOOLEAN,
     compile_unet : BOOLEAN, compile_vae : {TRUE}, unrolled : {FALSE}]

\* The results of compiling and warming up a new graph (oneflow is outside the
\* repository: _compile or the warmup call may raise).
BuildOutcomes == {"ok", "compile_raises", "warmup_raises"}

CacheSizes == -1 .. MaxCacheSize

NoKey == <<0, 0>>

\* "no graph object" (None / an unbound local).
NoGraph == [id |-> 0, kind |-> "none", height |-> 0, width |-> 0,
            batch |-> 0, cfg |-> FALSE, compiled |-> FALSE, executed |-> FALSE]

\* `dict()` (line 170).
EmptyCache == [k \in {} |-> [time |-> 0, graph |-> NoGraph]]

NoSig == [height |-> 0, width |-> 0, batch |-> 0, cfg |-> FALSE, unrolled |-> FALSE]

\* The threads of a host that shares one pipeline between two callers.
Threads == {"t1", "t2"}

\* The heights the two callers ask for (width 512).
CallerHeights == {512, 768}

\* A thread outside the cache step.
IdleCaller == [pc |-> "idle", key |-> NoKey, graph |-> NoGraph]

\* The checkpoints the web UI can select: A and B have one model structure,
\* X another.
Checkpoints == {"A", "B", "X"}

\* get_model_type, lines 154-160: the structure flags of a checkpoint's model.
ModelType(ckpt) == IF ckpt = "X" THEN "is_sdxl" ELSE "is_sd1"

\* `compiled_unet = None` (line 31).
NoUnet == [quantized |-> FALSE, weights |-> "None", type |-> "None"]

\* `compiled_ckpt_name = None` (line 32).
NoCkptName == [ckpt |-> "None", quantized |-> FALSE]

\* What lines 226-233 can read from the graph: a tensor for every name, or
\* None for one of them.
\* flow.__version__ and torch.__version__ as the two packages set them.
FlowVersion == "0.9.1"
TorchVersion == "2.1.2"

\* The modules the body of an onediff_mock_torch context may import.
BodyImports == {"diffusers", "transformers"}

\* The keys of cross attention blocks that the host passes as `key`.
PatchKeys == {"input_4", "middle_0"}

\* The models passed as `model`: two ModelPatchers of the host over one
\* diffusion model (model.model.diffusion_model), each with its own
\* model_options["transformer_options"].
PatchedModels == {"model", "clone"}

\* The keys of the dict get_model_type builds (lines 155-160).
ModelFlags == {"is_sdxl", "is_sd2", "is_sd1", "is_ssd"}

\* The attributes of shared.sd_model that are looked at here: the four flags
\* and, standing for the rest of the model, one attribute that is no flag.
ModelAttrs == ModelFlags \cup {"is_inpaint"}

\* The models passed to check_model_structure_change: every attribute is a bool.
Models == [ModelAttrs -> BOOLEAN]

\* `current_type = None` (line 109), as a dict with no key.
NoType == [key \in {} |-> FALSE]

\* The OneflowDeployableModule instances of one process.
Instances == {"m1", "m2"}

\* The dict objects that can be an instance's _deployable_module_options: the
\* one object that is the default value of the parameter `options` (line 18),
\* and per instance the dict its constructor call passed, if it passed one.
OptionsObjects == {"default"} \cup Instances

\* An instance that is not constructed yet.
NotConstructed ==
    [options |-> "none", dpl_graph |-> 0, load_graph_first_run |-> TRUE,
     modules |-> "none", use_graph |-> "None"]

\* The use_graph argument of from_existing (line 36): "None" when omitted.
UseGraphArgs == {"True", "False", "None"}

\* ckpt_name of the checkpoint loader nodes: a file name of the checkpoints folder.
NodeCkptNames == {"sd15.safetensors", "svd.safetensors"}

\* cache_name of SVDSpeedup: a free STRING input, "svd" by default (lines 338-340).
CacheNames == {"svd", ""}

\* vae_speedup of the loader nodes (lines 237, 560, 662).
VaeSpeedups == {"enable", "disable"}

\* The ckpt_name of a request made without one.
NoIdentity == "None"

RuntimeVarStates == {"tensors", "has_none"}

----------------------------------------------------------------------------
(* Pure helpers of __call__ *)

\* lines 301-306: batch_size from the prompt.
batch_size(prompt) == prompt.len

\* lines 301-309: the checks made before anything else.
ArgumentError(prompt, height, width) ==
    IF prompt.type \notin {"str", "list"} THEN "ValueError_prompt"
    ELSE IF height % 8 # 0 \/ width % 8 # 0 THEN "ValueError_height_width"
    ELSE "none"

\* lines 386-389, 408, 415: the key of the unet graph cache.
CacheKey(height, width) == <<height, width>>

\* Mutant of UsesCache: the cache step runs whatever compile_unet is.
UsesCache_Always(compile_unet) == TRUE

\* line 384: `if compile_unet:` guards the whole cache step.
UsesCache(compile_unet) == compile_unet

\* Mutant of CacheHit: the lookup uses (width, height).
CacheHit_SwappedKey(cache, key) == <<key[2], key[1]>> \in DOMAIN cache

\* line 386: `(height, width) in self.unet_graphs`.
CacheHit(cache, key) == key \in DOMAIN cache

\* The shape signature of the unet inputs of one call (lines 353, 411, 345)
\* together with the option that selects the graph class (line 402).
Signature(height, width, batch, cfg, unrolled) ==
    [height |-> height, width |-> width, batch |-> batch, cfg |-> cfg,
     unrolled |-> unrolled]

\* Mutant of ShapeToDel: max instead of min.
ShapeToDel_MostRecent(cache) ==
    CHOOSE k \in DOMAIN cache : \A j \in DOMAIN cache : cache[k].time >= cache[j].time

\* line 392: min(self.unet_graphs.keys(), key=lambda shape: self.unet_graphs[shape][0]).
\* Recency values of distinct entries are distinct, so the minimum is unique.
ShapeToDel(cache) ==
    CHOOSE k \in DOMAIN cache : \A j \in DOMAIN cache : cache[k].time <= cache[j].time

\* `del self.unet_graphs[shape_to_del]` (line 399).
DelEntry(cache, key) == [k \in DOMAIN cache \ {key} |-> cache[k]]

\* Mutant of EvictLoop: `if` instead of `while`, one entry is deleted at most.
EvictLoop_Once(cache, size) ==
    IF Cardinality(DOMAIN cache) >= size
    THEN IF DOMAIN cache = {}
         THEN [cache |-> cache, raised |-> TRUE]
         ELSE [cache |-> DelEntry(cache, ShapeToDel(cache)), raised |-> FALSE]
    ELSE [cache |-> cache, raised |-> FALSE]

\* Mutant of EvictLoop: `>` instead of `>=` in the loop condition.
RECURSIVE EvictLoop_OffByOne(_, _)
EvictLoop_OffByOne(cache, size) ==
    IF Cardinality(DOMAIN cache) > size
    THEN IF DOMAIN cache = {}
         THEN [cache |-> cache, raised |-> TRUE]
         ELSE EvictLoop_OffByOne(DelEntry(cache, ShapeToDel(cache)), size)
    ELSE [cache |-> cache, raised |-> FALSE]

\* lines 391-399: the eviction loop of a miss.  min() of no keys raises
\* ValueError, which happens when the loop still wants room in an empty dict.
RECURSIVE EvictLoop(_, _)
EvictLoop(cache, size) ==
    IF Cardinality(DOMAIN cache) >= size
    THEN IF DOMAIN cache = {}
         THEN [cache |-> cache, raised |-> TRUE]
         ELSE EvictLoop(DelEntry(cache, ShapeToDel(cache)), size)
    ELSE [cache |-> cache, raised |-> FALSE]

\* lines 402-415: the graph object constructed on a miss, after _compile and the
\* warmup call as far as they got.
NewGraph(id, height, width, batch, cfg, unrolled, build) ==
    [id |-> id,
     kind |-> IF unrolled THEN "UnrolledDenoiseGraph" ELSE "UNetGraph",
     height |-> height, width |-> width, batch |-> batch, cfg |-> cfg,
     compiled |-> build # "compile_raises",
     executed |-> build = "ok"]

\* Mutant of InsertAfterWarmup: the entry is stored once _compile returned,
\* before the warmup call.
InsertAfterCompile(cache, key, time, g, build) ==
    IF build # "compile_raises"
    THEN [k \in DOMAIN cache \cup {key} |->
            IF k = key THEN [time |-> time, graph |-> g] ELSE cache[k]]
    ELSE cache

\* Mutant of InsertAfterWarmup: the least recent entry is deleted when the new
\* graph is stored, after its compilation, instead of before.
InsertAfterWarmup_EvictsLate(cache, key, time, g, build) ==
    LET kept == IF DOMAIN cache \ {key} = {} THEN cache
                ELSE DelEntry(cache, ShapeToDel(cache))
    IN  IF build = "ok"
        THEN [k \in DOMAIN kept \cup {key} |->
                IF k = key THEN [time |-> time, graph |-> g] ELSE kept[k]]
        ELSE cache

\* lines 406-408 / 413-415: the entry is stored after _compile and the warmup
\* call returned; an exception in either leaves the dict as the loop left it.
InsertAfterWarmup(cache, key, time, g, build) ==
    IF build = "ok"
    THEN [k \in DOMAIN cache \cup {key} |->
            IF k = key THEN [time |-> time, graph |-> g] ELSE cache[k]]
    ELSE cache

\* Mutant of BumpEntry: a hit leaves the entry as it is.
BumpEntry_KeepsTime(cache, key, time) == cache

\* Mutant of BumpEntry: every entry is stored again with the current time.
BumpEntry_AllEntries(cache, key, time) ==
    [k \in DOMAIN cache |-> [time |-> time, graph |-> cache[k].graph]]

\* line 389: a hit stores the entry again with the current time.
BumpEntry(cache, key, time) ==
    [cache EXCEPT ![key] = [time |-> time, graph |-> cache[key].graph]]

\* lines 425-443: which unet the denoising uses, or the error of reading a local
\* that no branch bound (compile_unet false with unrolled_timesteps true).
DenoisePath(compile_unet, unrolled) ==
    IF unrolled
    THEN IF compile_unet THEN "unrolled_timesteps_graph" ELSE "UnboundLocalError"
    ELSE IF compile_unet THEN "unet_graph" ELSE "eager_unet"

----------------------------------------------------------------------------
InitFields ==
    /\ unet_graphs = EmptyCache
    /\ unet_graphs_cache_size = 1
    /\ unet_graphs_lru_cache_time = 0
    /\ text_encoder_graph = FALSE
    /\ vae_graph = FALSE
    /\ n_unet_graphs = 0
    /\ last = [op |-> "init", status |-> "ok", key |-> NoKey, sig |-> NoSig,
               compile_unet |-> FALSE, hit |-> FALSE, built |-> NoGraph,
               served |-> NoGraph, denoise |-> "none"]
    /\ hist = << >>
    /\ steady = TRUE
    /\ first_sig = NoSig
    /\ same_sig = TRUE
    /\ n_inserted = 0
    /\ use_graph \in (IF component = "module" THEN BOOLEAN ELSE {TRUE})
    /\ dpl_graph = 0
    /\ graph_file = "None"
    /\ load_graph_first_run = TRUE
    /\ device = "cpu"
    /\ n_dpl_graphs = 0
    /\ built_since_clear = 0
    /\ dm_last = [op |-> "init", status |-> "ok", path |-> "none", graph |-> 0,
                  arg |-> "None", held |-> 0, attempted |-> FALSE, retry |-> FALSE,
                  first_run |-> TRUE]
    /\ callers = [t \in Threads |-> IdleCaller]
    /\ sd_model_checkpoint = "A"
    /\ diffusion_model = "original"
    /\ compiled_unet = NoUnet
    /\ compiled_ckpt_name = NoCkptName
    /\ current_type = "None"
    /\ convname_dict = "None"
    /\ run_pc = "idle"
    /\ run_quantization = FALSE
    /\ run_last = [op |-> "init", status |-> "ok", recompiled |-> FALSE, copied |-> FALSE,
                   flag_changed |-> FALSE]
    /\ compile_requests = << >>
    /\ instances = [i \in Instances |-> NotConstructed]
    /\ options_objects = [o \in OptionsObjects |-> "None"]
    /\ inst_last = [op |-> "init", instance |-> "none", arg |-> "None"]
    /\ recorded_type = NoType
    /\ cache_dict = [key \in PatchKeys |-> 0]
    /\ patches_replace = [model \in PatchedModels |-> [key \in PatchKeys |-> 0]]
    /\ patch_cache = [patch \in 1 .. MaxPatches + 1 |-> FALSE]
    /\ n_patches = 0
    /\ hijack_last = [op |-> "init", model |-> "none", key |-> "none", status |-> "returned"]
    /\ flow_version = FlowVersion
    /\ sys_modules = {"oneflow", "torch"}
    /\ mock_contexts = << >>
    /\ mock_last = [op |-> "init", raised |-> FALSE, entered_with |-> FlowVersion]
    /\ check_last = [op |-> "init", model |-> [a \in ModelAttrs |-> FALSE],
                     found |-> NoType, returned |-> FALSE]

Init == component \in {"pipeline", "module"} /\ InitFields

----------------------------------------------------------------------------
(* Observation: bookkeeping of what the calls did, used to state properties. *)

Observe(op, status, key, sig, compile_unet, hit, built, served, denoise) ==
    [op |-> op, status |-> status, key |-> key, sig |-> sig,
     compile_unet |-> compile_unet, hit |-> hit, built |-> built,
     served |-> served, denoise |-> denoise]

\* A compile_unet call reached the cache step with signature sig.
NoteSignature(sig) ==
    LET same == same_sig /\ (first_sig = NoSig \/ sig = first_sig)
    IN  /\ same_sig' = same
        /\ first_sig' = IF same THEN sig ELSE NoSig

\* A compile_unet call reached the cache step and ended with `status`.
NoteCall(status, key, hit, g) ==
    IF steady /\ status = "ok"
    THEN /\ hist' = Append(hist, [key |-> key, hit |-> hit, graph |-> g.id])
         /\ steady' = TRUE
    ELSE /\ hist' = << >>
         /\ steady' = FALSE

----------------------------------------------------------------------------
(* OneFlowStableDiffusionPipeline.__call__, lines 216-500, as far as it      *)
(* touches the graphs.  `build` is what oneflow does with a new unet graph.  *)

\* lines 301-309: rejected before anything is built.
CallRejectedEarly(err, compile_unet) ==
    /\ last' = Observe("call", err, NoKey, NoSig, compile_unet, FALSE, NoGraph, NoGraph, "none")
    /\ UNCHANGED <<unet_graphs, unet_graphs_cache_size, unet_graphs_lru_cache_time,
                   text_encoder_graph, vae_graph, n_unet_graphs, hist, steady,
                   first_sig, same_sig, n_inserted>>

\* lines 320-362: the text encoder graph is created and run, then the supplied
\* latents are found to have the wrong shape.
CallRejectedLatents(compile_text_encoder, compile_unet) ==
    /\ text_encoder_graph' = (text_encoder_graph \/ compile_text_encoder)
    /\ last' = Observe("call", "ValueError_latents", NoKey, NoSig, compile_unet, FALSE,
                       NoGraph, NoGraph, "none")
    /\ UNCHANGED <<unet_graphs, unet_graphs_cache_size, unet_graphs_lru_cache_time,
                   vae_graph, n_unet_graphs, hist, steady,
                   first_sig, same_sig, n_inserted>>

\* compile_unet false: lines 384-418 are skipped; lines 419-443 run.
CallEager(compile_text_encoder, compile_vae, unrolled) ==
    LET path == DenoisePath(FALSE, unrolled)
    IN  /\ text_encoder_graph' = (text_encoder_graph \/ compile_text_encoder)
        /\ vae_graph' = (vae_graph \/ compile_vae)
        /\ last' = Observe("call",
                           IF path = "UnboundLocalError" THEN path ELSE "ok",
                           NoKey, NoSig, FALSE, FALSE, NoGraph, NoGraph,
                           IF path = "UnboundLocalError" THEN "none" ELSE path)
        /\ UNCHANGED <<unet_graphs, unet_graphs_cache_size, unet_graphs_lru_cache_time,
                       n_unet_graphs, hist, steady,
                       first_sig, same_sig, n_inserted>>

\* lines 385-389, then 419-443: the key is in the dict.
CallHit(key, sig, compile_text_encoder, compile_unet, compile_vae, unrolled) ==
    LET time == unet_graphs_lru_cache_time + 1
        g == unet_graphs[key].graph
    IN  /\ unet_graphs_lru_cache_time' = time
        /\ unet_graphs' = BumpEntry(unet_graphs, key, time)
        /\ text_encoder_graph' = (text_encoder_graph \/ compile_text_encoder)
        /\ vae_graph' = (vae_graph \/ compile_vae)
        /\ last' = Observe("call", "ok", key, sig, compile_unet, TRUE, NoGraph, g,
                           DenoisePath(compile_unet, unrolled))
        /\ NoteSignature(sig)
        /\ NoteCall("ok", key, TRUE, g)
        /\ UNCHANGED <<unet_graphs_cache_size, n_unet_graphs, n_inserted>>

\* lines 385, 390-399: the key is absent and the eviction loop runs out of
\* entries (cache size <= 0): min() raises ValueError.
CallMissNoRoom(key, sig, compile_text_encoder, compile_unet, evicted) ==
    /\ unet_graphs_lru_cache_time' = unet_graphs_lru_cache_time + 1
    /\ unet_graphs' = evicted.cache
    /\ text_encoder_graph' = (text_encoder_graph \/ compile_text_encoder)
    /\ last' = Observe("call", "ValueError_min", key, sig, compile_unet, FALSE,
                       NoGraph, NoGraph, "none")
    /\ NoteSignature(sig)
    /\ NoteCall("ValueError_min", key, FALSE, NoGraph)
    /\ UNCHANGED <<unet_graphs_cache_size, vae_graph, n_unet_graphs, n_inserted>>

\* lines 385, 390-418, then 419-443: the key is absent, room is made, a graph
\* is constructed, compiled, warmed up and stored.
CallMiss(key, sig, compile_text_encoder, compile_unet, compile_vae, unrolled, evicted, build) ==
    LET time == unet_graphs_lru_cache_time + 1
        g == NewGraph(n_unet_graphs + 1, sig.height, sig.width, sig.batch, sig.cfg,
                      unrolled, build)
        status == IF build = "ok" THEN "ok" ELSE build
        stored == InsertAfterWarmup(evicted.cache, key, time, g, build)
    IN  /\ unet_graphs_lru_cache_time' = time
        /\ n_unet_graphs' = n_unet_graphs + 1
        /\ n_inserted' = n_inserted + (IF key \in DOMAIN stored THEN 1 ELSE 0)
        /\ unet_graphs' = stored
        /\ text_encoder_graph' = (text_encoder_graph \/ compile_text_encoder)
        /\ vae_graph' = IF build = "ok" THEN (vae_graph \/ compile_vae) ELSE vae_graph
        /\ last' = Observe("call", status, key, sig, compile_unet, FALSE, g,
                           IF build = "ok" THEN g ELSE NoGraph,
                           IF build = "ok" THEN DenoisePath(compile_unet, unrolled)
                           ELSE "none")
        /\ NoteSignature(sig)
        /\ NoteCall(status, key, FALSE, g)
        /\ UNCHANGED unet_graphs_cache_size

PipelineCall(prompt, height, width, cfg, latents, compile_text_encoder, compile_unet, compile_vae, unrolled, build) ==
    LET err == ArgumentError(prompt, height, width)
        key == CacheKey(height, width)
        sig == Signature(height, width, batch_size(prompt), cfg, unrolled)
        evicted == EvictLoop(unet_graphs, unet_graphs_cache_size)
        compiles == /\ err = "none" /\ latents # "other_shape" /\ UsesCache(compile_unet)
                    /\ ~CacheHit(unet_graphs, key) /\ ~evicted.raised
    IN  /\ component = "pipeline"
        /\ UsesCache(compile_unet) => unet_graphs_lru_cache_time < MaxCalls
        /\ build # "ok" => compiles
        /\ IF err # "none" THEN CallRejectedEarly(err, compile_unet)
           ELSE IF latents = "other_shape"
                THEN CallRejectedLatents(compile_text_encoder, compile_unet)
           ELSE IF ~UsesCache(compile_unet)
                THEN CallEager(compile_text_encoder, compile_vae, unrolled)
           ELSE IF CacheHit(unet_graphs, key)
                THEN CallHit(key, sig, compile_text_encoder, compile_unet, compile_vae,
                             unrolled)
           ELSE IF evicted.raised
                THEN CallMissNoRoom(key, sig, compile_text_encoder, compile_unet, evicted)
           ELSE CallMiss(key, sig, compile_text_encoder, compile_unet, compile_vae,
                         unrolled, evicted, build)
        /\ UNCHANGED <<component, ext_vars, dm_vars>>

\* set_unet_graphs_cache_size, lines 203-213: one assignment.
set_unet_graphs_cache_size(cache_size) ==
    /\ component = "pipeline"
    /\ unet_graphs_cache_size' = cache_size
    /\ last' = Observe("set_unet_graphs_cache_size", "ok", NoKey, NoSig, FALSE, FALSE,
                       NoGraph, NoGraph, "none")
    /\ IF steady /\ hist = << >>
       THEN UNCHANGED <<hist, steady>>
       ELSE hist' = << >> /\ steady' = FALSE
    /\ UNCHANGED <<component, ext_vars, dm_vars, unet_graphs, unet_graphs_lru_cache_time,
                   text_encoder_graph, vae_graph, n_unet_graphs,
                   first_sig, same_sig, n_inserted>>

----------------------------------------------------------------------------
(* Two threads in the cache step of __call__, lines 384-415.  The method takes *)
(* no lock, so a thread can be suspended between the lookup of line 386, the  *)
(* compilation of lines 399-405 / 410-414 and the insertion of line 406 / 415.*)

\* lines 385-398: the counter, the lookup, and on a miss the eviction loop.
CallerLookup(t, height, width) ==
    LET key == CacheKey(height, width)
        time == unet_graphs_lru_cache_time + 1
        evicted == EvictLoop(unet_graphs, unet_graphs_cache_size)
    IN  /\ component = "callers"
        /\ callers[t].pc = "idle"
        /\ unet_graphs_lru_cache_time < MaxCalls
        /\ unet_graphs_lru_cache_time' = time
        /\ IF CacheHit(unet_graphs, key)
           THEN /\ unet_graphs' = BumpEntry(unet_graphs, key, time)
                /\ callers' = [callers EXCEPT ![t] =
                                 [pc |-> "idle", key |-> key, graph |-> unet_graphs[key].graph]]
           ELSE /\ unet_graphs' = evicted.cache
                /\ callers' = [callers EXCEPT ![t] =
                                 IF evicted.raised THEN IdleCaller
                                 ELSE [pc |-> "compiling", key |-> key, graph |-> NoGraph]]
        /\ UNCHANGED <<component, misc_vars, web_vars, node_vars, inst_vars, dm_vars, unet_graphs_cache_size, text_encoder_graph,
                       vae_graph, n_unet_graphs, last, hist, steady, first_sig, same_sig,
                       n_inserted>>

\* lines 399-405 / 410-414: the graph is constructed, compiled and warmed up.
CallerCompile(t, build) ==
    LET key == callers[t].key
        g == NewGraph(n_unet_graphs + 1, key[1], key[2], 1, TRUE, FALSE, build)
    IN  /\ component = "callers"
        /\ callers[t].pc = "compiling"
        /\ n_unet_graphs' = n_unet_graphs + 1
        /\ callers' = [callers EXCEPT ![t] =
                         IF build = "ok" THEN [pc |-> "insert", key |-> key, graph |-> g]
                         ELSE IdleCaller]
        /\ UNCHANGED <<component, misc_vars, web_vars, node_vars, inst_vars, dm_vars, unet_graphs, unet_graphs_cache_size,
                       unet_graphs_lru_cache_time, text_encoder_graph, vae_graph, last,
                       hist, steady, first_sig, same_sig, n_inserted>>

\* line 406 / 415: the entry is stored with the counter as it is now.
CallerInsert(t) ==
    /\ component = "callers"
    /\ callers[t].pc = "insert"
    /\ unet_graphs' = InsertAfterWarmup(unet_graphs, callers[t].key,
                                        unet_graphs_lru_cache_time, callers[t].graph, "ok")
    /\ callers' = [callers EXCEPT ![t].pc = "idle"]
    /\ UNCHANGED <<component, misc_vars, web_vars, node_vars, inst_vars, dm_vars, unet_graphs_cache_size, unet_graphs_lru_cache_time,
                   text_encoder_graph, vae_graph, n_unet_graphs, last, hist, steady,
                   first_sig, same_sig, n_inserted>>

----------------------------------------------------------------------------
(* OneflowDeployableModule                                                   *)

\* The methods that run the wrapped module (lines 71-97, 119-137).
RunMethods == {"__call__", "apply_model", "decode"}

\* Values given to set_graph_file: None, the empty string and two paths.
GraphFiles == {"None", "", "a.graph", "b.graph"}

\* Devices a module can be on.
Devices == {"cpu", "cuda"}

\* What parse_device (line 103) finds in the arguments of to(): a device, or
\* None for a call that names none, such as to(torch.float16).
TargetDevices == Devices \cup {"None"}

\* get_graph, lines 50-69: the held graph if there is one, else a new graph from
\* get_oneflow_graph, held from then on.  get_oneflow_graph is outside the
\* module and may raise (`built` false): nothing is held then.
get_graph(held, n, built) ==
    IF held # 0 THEN [graph |-> held, n |-> n, raised |-> FALSE, constructed |-> FALSE]
    ELSE IF built THEN [graph |-> n + 1, n |-> n + 1, raised |-> FALSE, constructed |-> TRUE]
    ELSE [graph |-> 0, n |-> n, raised |-> TRUE, constructed |-> FALSE]

\* Mutant of RunsGraph: the flag is ignored and the oneflow module always runs.
RunsGraph_Never(flag) == FALSE

\* lines 75, 90, 123: `if self._deployable_module_use_graph:`.
RunsGraph(flag) == flag

\* The body of apply_model / __call__ / decode, lines 75-84, 90-97, 123-137.
\* With use_graph the graph from get_graph is called, which compiles it on its
\* first call and runs it (`ran` false: that call raised); otherwise the
\* oneflow module runs.  The graph stays held when its call raises.
RunBody(flag, held, n, built, ran) ==
    LET r == get_graph(held, n, built)
    IN  IF RunsGraph(flag)
        THEN [graph |-> r.graph, n |-> r.n, constructed |-> r.constructed,
              attempted |-> TRUE,
              raised |-> r.raised \/ ~ran,
              path |-> IF r.raised \/ ~ran THEN "none" ELSE "graph"]
        ELSE [graph |-> held, n |-> n, constructed |-> FALSE, attempted |-> FALSE,
              raised |-> FALSE, path |-> "eager"]

\* Mutant of handle_deployable_exception: the exception of the body reaches
\* the caller and nothing runs in its place.
handle_deployable_exception_Reraise(b) ==
    [graph |-> b.graph, status |-> IF b.raised THEN "raises" ELSE "ok", path |-> b.path]

\* @handle_deployable_exception: a body that raised is logged and the call is
\* executed eagerly, the module left with no graph; a body that returned is
\* passed through.
handle_deployable_exception(b) ==
    IF b.raised THEN [graph |-> 0, status |-> "compile_failed", path |-> "eager"]
    ELSE [graph |-> b.graph, status |-> "ok", path |-> b.path]

\* @graph_file_management: the first decorated call of a module that has a
\* graph file lowers _load_graph_first_run; later calls leave it alone.
graph_file_management(first_run, file) ==
    IF first_run /\ file # "None" THEN FALSE ELSE first_run

\* apply_model / __call__ / decode with their decorators, lines 71-97 and
\* 119-137.
DeployableRun(method, built, ran) ==
    LET b == RunBody(use_graph, dpl_graph, n_dpl_graphs, built, ran)
        h == handle_deployable_exception(b)
    IN  /\ component = "module"
        /\ (b.attempted /\ dpl_graph = 0) => n_dpl_graphs < MaxBuilds
        /\ ~built => (b.attempted /\ dpl_graph = 0)
        /\ ~ran => (b.attempted /\ built)
        /\ dpl_graph' = h.graph
        /\ n_dpl_graphs' = b.n
        /\ built_since_clear' = IF h.graph = 0 THEN 0
                                ELSE built_since_clear + (IF b.constructed THEN 1 ELSE 0)
        /\ load_graph_first_run' = graph_file_management(load_graph_first_run, graph_file)
        /\ dm_last' = [op |-> method, status |-> h.status, path |-> h.path,
                       graph |-> h.graph, arg |-> "None", held |-> dpl_graph,
                       attempted |-> b.attempted,
                       retry |-> b.attempted /\ dm_last.status = "compile_failed",
                       first_run |-> load_graph_first_run]
        /\ UNCHANGED <<component, ext_vars, pipe_vars, use_graph, graph_file, device>>

\* check_device (line 111): whether the graph's device is the target device.
check_device(current_device, target_device) == current_device = target_device

\* Mutant of ToRaises: the device is compared whether or not a graph is held.
ToRaises_WithoutGraph(held, target, current) ==
    target # "None" /\ ~check_device(current, target)

\* to, lines 99-116: the move is refused when a graph is held, the arguments
\* name a device and it is not the device of the graph's state.  A graph from
\* get_oneflow_graph wraps the oneflow module, so its _blocks are not empty.
ToRaises(held, target, current) ==
    held # 0 /\ target # "None" /\ ~check_device(current, target)

\* Mutant of to: the model is moved before the devices are compared.
to_MovesFirst(target) ==
    LET raises == ToRaises(dpl_graph, target, device)
    IN  /\ component = "module"
        /\ device' = IF target = "None" THEN device ELSE target
        /\ dm_last' = [op |-> "to", status |-> IF raises THEN "RuntimeError" ELSE "ok",
                       path |-> "none", graph |-> dpl_graph, arg |-> target,
                       held |-> dpl_graph, attempted |-> FALSE, retry |-> FALSE,
                       first_run |-> load_graph_first_run]
        /\ UNCHANGED <<component, ext_vars, pipe_vars, use_graph, dpl_graph, graph_file,
                       n_dpl_graphs, built_since_clear, load_graph_first_run>>

\* to, lines 99-116: self._deployable_module_model.to(...) unless refused.
to(target) ==
    LET raises == ToRaises(dpl_graph, target, device)
    IN  /\ component = "module"
        /\ device' = IF raises \/ target = "None" THEN device ELSE target
        /\ dm_last' = [op |-> "to", status |-> IF raises THEN "RuntimeError" ELSE "ok",
                       path |-> "none", graph |-> dpl_graph, arg |-> target,
                       held |-> dpl_graph, attempted |-> FALSE, retry |-> FALSE,
                   first_run |-> load_graph_first_run]
        /\ UNCHANGED <<component, ext_vars, pipe_vars, use_graph, dpl_graph, graph_file,
                       n_dpl_graphs, built_since_clear, load_graph_first_run>>

\* load_graph / save_graph, lines 142-146: self.get_graph().load_graph(...) and
\* self.get_graph().save_graph(...).  get_graph runs first, whatever use_graph
\* is; `done` is whether the graph's own load or save then returned.  A file
\* that does not fit the module makes the graph's load raise.
DeployableLoadSave(op, built, done) ==
    LET r == get_graph(dpl_graph, n_dpl_graphs, built)
    IN  /\ component = "module"
        /\ dpl_graph = 0 => n_dpl_graphs < MaxBuilds
        /\ ~built => dpl_graph = 0
        /\ ~done => built
        /\ dpl_graph' = r.graph
        /\ n_dpl_graphs' = r.n
        /\ built_since_clear' = built_since_clear + (IF r.constructed THEN 1 ELSE 0)
        /\ dm_last' = [op |-> op,
                       status |-> IF r.raised THEN "get_graph_raises"
                                  ELSE IF done THEN "ok" ELSE "graph_raises",
                       path |-> "none", graph |-> r.graph, arg |-> "None",
                       held |-> dpl_graph, attempted |-> dpl_graph = 0, retry |-> FALSE,
                       first_run |-> load_graph_first_run]
        /\ UNCHANGED <<component, ext_vars, pipe_vars, use_graph, graph_file, device,
                       load_graph_first_run>>

\* Mutant of SameGraphFile: any path given counts as the current one.
SameGraphFile_AnyPath(old_file_path, file_path) == file_path \notin {"None", ""}

\* line 160: `if file_path and old_file_path == file_path`.
SameGraphFile(old_file_path, file_path) ==
    file_path \notin {"None", ""} /\ old_file_path = file_path

\* set_graph_file, lines 151-165, with _clear_old_graph, lines 167-170.
set_graph_file(file_path) ==
    /\ component = "module"
    /\ IF SameGraphFile(graph_file, file_path)
       THEN UNCHANGED <<dpl_graph, graph_file, built_since_clear, load_graph_first_run>>
       ELSE /\ graph_file' = file_path
            /\ load_graph_first_run' = TRUE
            /\ dpl_graph' = 0
            /\ built_since_clear' = 0
    /\ dm_last' = [op |-> "set_graph_file", status |-> "ok", path |-> "none", graph |-> 0,
                   arg |-> file_path, held |-> dpl_graph, attempted |-> FALSE, retry |-> FALSE,
                   first_run |-> load_graph_first_run]
    /\ UNCHANGED <<component, ext_vars, pipe_vars, use_graph, n_dpl_graphs, device>>

----------------------------------------------------------------------------
(* Several OneflowDeployableModule instances.  An options dict is an object:
   an instance holds a reference to one (line 30), and the default value of
   the parameter `options` is evaluated once, when the function is defined, so
   every construction that passes no options receives the same dict. *)

\* get_graph_file, lines 172-173: the entry of the instance's options dict.
get_graph_file(i) == options_objects[instances[i].options]

\* __init__, lines 17-33: `passed` is "default" when the call passes no
\* options, else the graph file of the dict it passes ("None": no such key).
OneflowDeployableModule(i, passed) ==
    /\ component = "instances"
    /\ instances[i] = NotConstructed
    /\ instances' = [instances EXCEPT ![i] =
                        [options |-> IF passed = "default" THEN "default" ELSE i,
                         dpl_graph |-> 0, load_graph_first_run |-> TRUE,
                         modules |-> i, use_graph |-> "True"]]
    /\ options_objects' = IF passed = "default" THEN options_objects
                           ELSE [options_objects EXCEPT ![i] = passed]
    /\ inst_last' = [op |-> "__init__", instance |-> i, arg |-> passed]
    /\ UNCHANGED <<component, misc_vars, pipe_vars, dm_vars, callers, web_vars, node_vars>>

\* get_graph, lines 50-69, on instance i: the graph is constructed if none is
\* held.
instance_get_graph(i) ==
    /\ component = "instances"
    /\ instances[i] # NotConstructed
    /\ instances' = [instances EXCEPT
                        ![i].dpl_graph = get_graph(instances[i].dpl_graph, 0, TRUE).graph]
    /\ inst_last' = [op |-> "get_graph", instance |-> i, arg |-> "None"]
    /\ UNCHANGED <<component, misc_vars, pipe_vars, dm_vars, callers, web_vars, node_vars,
                   options_objects>>

\* set_graph_file, lines 151-165, with _clear_old_graph, lines 167-170, on
\* instance i: line 163 writes into the dict the instance refers to.
instance_set_graph_file(i, file_path) ==
    /\ component = "instances"
    /\ instances[i] # NotConstructed
    /\ IF SameGraphFile(get_graph_file(i), file_path)
       THEN UNCHANGED <<instances, options_objects>>
       ELSE /\ options_objects' = [options_objects EXCEPT ![instances[i].options] = file_path]
            /\ instances' = [instances EXCEPT ![i].dpl_graph = 0,
                                              ![i].load_graph_first_run = TRUE]
    /\ inst_last' = [op |-> "set_graph_file", instance |-> i, arg |-> file_path]
    /\ UNCHANGED <<component, misc_vars, pipe_vars, dm_vars, callers, web_vars, node_vars>>

\* apply_model / __call__ / decode, lines 71-97 and 119-137, on instance i,
\* when the graph can be built and run: with use_graph the graph of get_graph
\* is held afterwards, and graph_file_management lowers the first-run flag of
\* an instance that has a graph file.
instance_call(i) ==
    /\ component = "instances"
    /\ instances[i] # NotConstructed
    /\ instances' = [instances EXCEPT
                        ![i].dpl_graph = IF instances[i].use_graph = "True"
                                         THEN get_graph(@, 0, TRUE).graph ELSE @,
                        ![i].load_graph_first_run =
                            graph_file_management(@, get_graph_file(i))]
    /\ inst_last' = [op |-> "__call__", instance |-> i, arg |-> "None"]
    /\ UNCHANGED <<component, misc_vars, pipe_vars, dm_vars, callers, web_vars, node_vars,
                   options_objects>>

\* Mutant of ExistingGraph: the graph is shared whatever use_graph is.
ExistingGraph_Always(use_graph_arg, held) == held

\* lines 40-42: `existing_module._deployable_module_dpl_graph if use_graph else None`.
ExistingGraph(use_graph_arg, held) == IF use_graph_arg = "True" THEN held ELSE 0

\* from_existing, lines 35-48: instance i is constructed around the modules of
\* `existing` (lines 37-39), then given its graph or None and its first-run
\* flag.  `passed` is "omitted" when the call passes no options, and then the
\* new instance's options are None (line 36); else it is the graph file of the
\* dict passed.  The read of existing's _deployable_module_input_count (lines
\* 44-46) copies a value this model does not use.
from_existing(i, existing, use_graph_arg, passed) ==
    /\ component = "instances"
    /\ i # existing
    /\ instances[i] = NotConstructed
    /\ instances[existing] # NotConstructed
    /\ instances' = [instances EXCEPT ![i] =
                        [options |-> IF passed = "omitted" THEN "None" ELSE i,
                         dpl_graph |-> ExistingGraph(use_graph_arg, instances[existing].dpl_graph),
                         load_graph_first_run |-> instances[existing].load_graph_first_run,
                         modules |-> instances[existing].modules,
                         use_graph |-> use_graph_arg]]
    /\ options_objects' = IF passed = "omitted" THEN options_objects
                           ELSE [options_objects EXCEPT ![i] = passed]
    /\ inst_last' = [op |-> "from_existing", instance |-> i, arg |-> use_graph_arg]
    /\ UNCHANGED <<component, misc_vars, pipe_vars, dm_vars, callers, web_vars, node_vars>>

----------------------------------------------------------------------------
(* The web UI script: Script.run, lines 174-234, and UnetCompileCtx, 92-105   *)

\* lines 183-185: the checkpoint name, with "_quantized" appended under
\* quantization.
CkptName(ckpt, quantization) == [ckpt |-> ckpt, quantized |-> quantization]

\* Mutant of check_model_structure_change: every run sees a changed structure.
check_model_structure_change_Always(type, model_type) == TRUE

\* check_model_structure_change, lines 151-172: whether the structure flags
\* differ from the recorded ones (or none are recorded).
check_model_structure_change(type, model_type) == type = "None" \/ type # model_type

\* lines 187-204: what the run decides before compiling.  Without a recompile
\* and with another checkpoint name the conv weights are copied into the
\* tensors of convname_dict: iterating None raises TypeError, and a tensor that
\* is None stops the copy and asks for a recompile, which replaces the unet
\* (when compile_unet then raises, the run ends and the unet is kept as it
\* was: the None tensor is taken to be met first).
RunDecision(quantization) ==
    LET model_changed == CkptName(sd_model_checkpoint, quantization) # compiled_ckpt_name
        model_structure_changed ==
            check_model_structure_change(current_type, ModelType(sd_model_checkpoint))
        need_recompile == (quantization /\ model_changed) \/ model_structure_changed
    IN  IF need_recompile \/ ~model_changed
        THEN [raises |-> FALSE, need_recompile |-> need_recompile, copied |-> "none"]
        ELSE IF convname_dict = "None"
        THEN [raises |-> TRUE, need_recompile |-> FALSE, copied |-> "none"]
        ELSE IF convname_dict = "has_none"
        THEN [raises |-> FALSE, need_recompile |-> TRUE, copied |-> "some"]
        ELSE [raises |-> FALSE, need_recompile |-> FALSE, copied |-> "all"]

\* compile_unet, lines 66-89: a unet for the model of the selected checkpoint,
\* quantized if asked.
compile_unet(ckpt, quantization) ==
    [quantized |-> quantization, weights |-> ckpt, type |-> ModelType(ckpt)]

\* Mutant of UnetCompileCtx_exit: the compiled unet is left in place.
UnetCompileCtx_exit_Keeps(original_model, current) == current

\* UnetCompileCtx.__exit__, lines 103-105: the model saved by __enter__ is put
\* back; the exception, if any, goes on.
UnetCompileCtx_exit(original_model, current) == original_model

\* The user selects a checkpoint between two runs; the web UI loads its weights
\* into shared.sd_model.
select_checkpoint(ckpt) ==
    /\ component = "webui"
    /\ run_pc = "idle"
    /\ ckpt # sd_model_checkpoint
    /\ sd_model_checkpoint' = ckpt
    /\ run_last' = [op |-> "select_checkpoint", status |-> "ok", recompiled |-> FALSE,
                    copied |-> FALSE, flag_changed |-> FALSE]
    /\ UNCHANGED <<component, misc_vars, pipe_vars, dm_vars, callers, node_vars, inst_vars, diffusion_model, compiled_unet,
                   compiled_ckpt_name, current_type, convname_dict, run_pc,
                   run_quantization>>

\* Script.run, lines 174-213: the decision, the copy or the recompile, and the
\* entry of UnetCompileCtx (lines 98-101).  `compiled` false: compile_unet
\* raised.
ScriptRunBegin(quantization, compiled) ==
    LET d == RunDecision(quantization)
        status == IF d.raises THEN "TypeError"
                  ELSE IF d.need_recompile /\ ~compiled THEN "compile_raises" ELSE "ok"
        unet == IF status = "ok" /\ d.need_recompile
                THEN compile_unet(sd_model_checkpoint, quantization)
                ELSE IF d.copied = "all"
                THEN [compiled_unet EXCEPT !.weights = sd_model_checkpoint]
                ELSE compiled_unet
    IN  /\ component = "webui"
        /\ run_pc = "idle"
        /\ ~compiled => d.need_recompile
        /\ current_type' = ModelType(sd_model_checkpoint)
        /\ compiled_unet' = unet
        /\ compiled_ckpt_name' = IF status = "ok" /\ d.need_recompile
                                 THEN CkptName(sd_model_checkpoint, quantization)
                                 ELSE compiled_ckpt_name
        /\ convname_dict' = IF status = "ok" /\ d.need_recompile THEN "None"
                            ELSE convname_dict
        /\ run_pc' = IF status = "ok" THEN "entered" ELSE "idle"
        /\ diffusion_model' = IF status = "ok" THEN "compiled" ELSE diffusion_model
        /\ run_quantization' = IF status = "ok" THEN quantization ELSE FALSE
        /\ run_last' = [op |-> "run_begin", status |-> status,
                        recompiled |-> status = "ok" /\ d.need_recompile,
                        copied |-> d.copied = "all",
                        flag_changed |-> compiled_unet # NoUnet
                                         /\ compiled_unet.quantized # quantization]
        /\ UNCHANGED <<component, misc_vars, pipe_vars, dm_vars, callers, node_vars, inst_vars, sd_model_checkpoint>>

\* lines 213-215: VaeCompileCtx, SD21CompileCtx and HijackLoraActivate are
\* entered after UnetCompileCtx; if one of them raises, UnetCompileCtx.__exit__
\* runs and the exception leaves run.
ScriptRunEnter(entered) ==
    /\ component = "webui"
    /\ run_pc = "entered"
    /\ run_pc' = IF entered THEN "processing" ELSE "idle"
    /\ diffusion_model' = IF entered THEN diffusion_model
                          ELSE UnetCompileCtx_exit("original", diffusion_model)
    /\ run_quantization' = IF entered THEN run_quantization ELSE FALSE
    /\ run_last' = [op |-> "run_enter", status |-> IF entered THEN "ok" ELSE "enter_raises",
                    recompiled |-> FALSE, copied |-> FALSE, flag_changed |-> FALSE]
    /\ UNCHANGED <<component, misc_vars, pipe_vars, dm_vars, callers, node_vars, inst_vars, sd_model_checkpoint, compiled_unet,
                   compiled_ckpt_name, current_type, convname_dict>>

\* lines 216-234: process_images returns or raises, the context managers exit,
\* and after a return without quantization a missing convname_dict is read
\* from the graph.
ScriptRunProcess(processed, states) ==
    /\ component = "webui"
    /\ run_pc = "processing"
    /\ run_pc' = "idle"
    /\ diffusion_model' = UnetCompileCtx_exit("original", diffusion_model)
    /\ convname_dict' = IF processed /\ ~run_quantization /\ convname_dict = "None"
                        THEN states ELSE convname_dict
    /\ run_quantization' = FALSE
    /\ run_last' = [op |-> "run_process",
                    status |-> IF processed THEN "ok" ELSE "process_images_raises",
                    recompiled |-> FALSE, copied |-> FALSE, flag_changed |-> FALSE]
    /\ UNCHANGED <<component, misc_vars, pipe_vars, dm_vars, callers, node_vars, inst_vars, sd_model_checkpoint, compiled_unet,
                   compiled_ckpt_name, current_type>>

----------------------------------------------------------------------------
(* Script.check_model_structure_change, lines 151-172, with the model type as
   the dict of the four flags *)

\* get_model_type, lines 154-160: the dict of the model's four flags.
get_model_type(model) == [key \in ModelFlags |-> model[key]]

\* Mutant of is_changed: the loop looks at the first key only.
is_changed_FirstKeyOnly(type, model) ==
    type = NoType \/ type["is_sdxl"] # model["is_sdxl"]

\* lines 162-169: None recorded, or a recorded value that differs from the
\* model's attribute of that name.
is_changed(type, model) ==
    type = NoType \/ \E key \in DOMAIN type : type[key] # model[key]

\* check_model_structure_change, lines 151-172: the type is recorded when it
\* changed (lines 170-171) and is_changed is returned.
model_structure_change(model) ==
    /\ component = "script"
    /\ recorded_type' = IF is_changed(recorded_type, model) THEN get_model_type(model)
                         ELSE recorded_type
    /\ check_last' = [op |-> "check_model_structure_change", model |-> model,
                      found |-> recorded_type,
                      returned |-> is_changed(recorded_type, model)]
    /\ UNCHANGED <<component, pipe_vars, dm_vars, callers, web_vars, node_vars, inst_vars,
                   hijack_vars, mock_vars>>

----------------------------------------------------------------------------
(* The oneflow replacements of set_model_patch_replace.  Both look the key up
   in the patch cache kept with the diffusion model and in the attn2 table of
   the model's transformer_options (created empty if missing, lines 26-29 /
   21-24). *)

\* InstantID.py line 27: patch.retrieve_from_cache(id(patch), None) can give a
\* value only for a patch on which set_cache(id(patch), ...) was called
\* (lines 35, 39).
CanRetrieve(patch) == patch # 0 /\ patch_cache[patch]

\* IPAdapterPlus.set_model_patch_replace_fn_of, lines 15-48.
set_model_patch_replace_fn_of(model, key) ==
    LET in_cache == cache_dict[key] # 0
        in_table == patches_replace[model][key] # 0
        constructs == ~in_table /\ ~in_cache
        patch == IF constructs THEN n_patches + 1 ELSE cache_dict[key]
    IN  /\ component = "hijack"
        /\ constructs => n_patches < MaxPatches
        /\ n_patches' = IF constructs THEN n_patches + 1 ELSE n_patches
        /\ cache_dict' = IF constructs THEN [cache_dict EXCEPT ![key] = patch] ELSE cache_dict
        /\ patches_replace' = IF in_table THEN patches_replace
                               ELSE [patches_replace EXCEPT ![model][key] = patch]
        /\ hijack_last' = [op |-> "set_model_patch_replace_fn_of", model |-> model,
                           key |-> key, status |-> "returned"]
        /\ UNCHANGED <<component, pipe_vars, dm_vars, callers, web_vars, node_vars, inst_vars,
                       type_vars, mock_vars, patch_cache>>

\* InstantID._set_model_patch_replace, lines 13-39.  `retrieved`: whether
\* retrieve_from_cache gave a value (line 27).  In the last branch `patch` is
\* bound only if line 26 ran.
set_model_patch_replace(model, key, retrieved) ==
    LET in_cache == cache_dict[key] # 0
        in_table == patches_replace[model][key] # 0
        early == in_cache /\ retrieved
        constructs == ~early /\ ~in_table
        unbound == ~early /\ in_table /\ ~in_cache
        patch == IF constructs THEN n_patches + 1 ELSE cache_dict[key]
    IN  /\ component = "hijack"
        /\ retrieved => CanRetrieve(cache_dict[key])
        /\ constructs => n_patches < MaxPatches
        /\ n_patches' = IF constructs THEN n_patches + 1 ELSE n_patches
        /\ cache_dict' = IF constructs THEN [cache_dict EXCEPT ![key] = patch] ELSE cache_dict
        /\ patches_replace' = IF constructs THEN [patches_replace EXCEPT ![model][key] = patch]
                               ELSE patches_replace
        /\ patch_cache' = IF early \/ unbound THEN patch_cache
                           ELSE [patch_cache EXCEPT ![patch] = TRUE]
        /\ hijack_last' = [op |-> "_set_model_patch_replace", model |-> model, key |-> key,
                           status |-> IF unbound THEN "UnboundLocalError" ELSE "returned"]
        /\ UNCHANGED <<component, pipe_vars, dm_vars, callers, web_vars, node_vars, inst_vars,
                       type_vars, mock_vars>>

----------------------------------------------------------------------------
(* onediff_mock_torch, a generator under @contextmanager.  Entering runs it to
   the yield of line 21; a normal exit resumes it after the yield; an
   exception of the body is thrown into it at the yield, where no try/finally
   surrounds it, so lines 23-29 do not run. *)

\* Lines 23-24: the restore functions, one if line 12 held at entry.
restore(context) == IF context.restores THEN context.orig_flow_attr ELSE flow_version

\* Lines 27-29: sys.modules is replaced by the copy of line 17 if the lengths differ.
restore_modules(backup) == IF Cardinality(sys_modules) # Cardinality(backup) THEN backup ELSE sys_modules

\* Lines 9-21, up to the yield.  Both packages have __version__ (line 12).
onediff_mock_torch_enter ==
    LET has_attrs == flow_version # "" /\ TorchVersion # ""
    IN  /\ component = "mock"
        /\ Len(mock_contexts) < MaxDepth
        /\ mock_contexts' = <<[restores |-> has_attrs, orig_flow_attr |-> flow_version,
                                entered_with |-> flow_version, backup |-> sys_modules]>>
                             \o mock_contexts
        /\ flow_version' = IF has_attrs THEN TorchVersion ELSE flow_version
        /\ UNCHANGED <<component, pipe_vars, dm_vars, callers, web_vars, node_vars, inst_vars,
                       type_vars, hijack_vars, sys_modules, mock_last>>

\* The body of the context importing a module (the with statement's suite).
body_import(module) ==
    /\ component = "mock"
    /\ mock_contexts # << >>
    /\ module \notin sys_modules
    /\ sys_modules' = sys_modules \cup {module}
    /\ UNCHANGED <<component, pipe_vars, dm_vars, callers, web_vars, node_vars, inst_vars,
                   type_vars, hijack_vars, flow_version, mock_contexts, mock_last>>

\* The innermost context exits: after the yield, lines 23-29 if the body
\* ended normally, nothing of them if it raised.
onediff_mock_torch_exit(raised) ==
    /\ component = "mock"
    /\ mock_contexts # << >>
    /\ LET context == Head(mock_contexts)
       IN  /\ flow_version' = IF raised THEN flow_version ELSE restore(context)
           /\ sys_modules' = IF raised THEN sys_modules ELSE restore_modules(context.backup)
           /\ mock_last' = [op |-> "exit", raised |-> raised,
                            entered_with |-> context.entered_with]
    /\ mock_contexts' = Tail(mock_contexts)
    /\ UNCHANGED <<component, pipe_vars, dm_vars, callers, web_vars, node_vars, inst_vars,
                   type_vars, hijack_vars>>

----------------------------------------------------------------------------
(* The ComfyUI nodes of nodes_oneflow_optimizer.py that hand a model to an
   OptimizerScheduler.  Each node operation is one action; what it leaves
   behind is the requests it made, each with the node, the module handed over,
   the entry point used and the ckpt_name keyword it passed. *)

CompileRequest(node, module, via, ckpt_name) ==
    [node |-> node, module |-> module, via |-> via, ckpt_name |-> ckpt_name]

NodeOperation(requests) ==
    /\ Len(compile_requests) + Len(requests) <= MaxRequests
    /\ compile_requests' = compile_requests \o requests
    /\ UNCHANGED <<component, misc_vars, pipe_vars, dm_vars, callers, web_vars, inst_vars>>

\* ModuleDeepCacheSpeedup.deep_cache_convert (lines 148-166): op.compile(model).
deep_cache_convert ==
    /\ component = "nodes"
    /\ NodeOperation(<<CompileRequest("ModuleDeepCacheSpeedup", "model", "compile", NoIdentity)>>)

\* The loaders' optional second request: the vae, when the condition of the node holds.
VaeRequest(node, compile_vae, ckpt_name) ==
    IF compile_vae THEN <<CompileRequest(node, "vae", "compile", ckpt_name)>> ELSE << >>

\* OneDiffDeepCacheCheckpointLoaderSimple.onediff_load_checkpoint (lines 277-310).
deep_cache_load_checkpoint(ckpt_name, vae_speedup) ==
    /\ component = "nodes"
    /\ NodeOperation(
        <<CompileRequest("OneDiffDeepCacheCheckpointLoaderSimple", "model", "compile", ckpt_name)>>
        \o VaeRequest("OneDiffDeepCacheCheckpointLoaderSimple", vae_speedup = "enable", ckpt_name))

\* BatchSizePatcher.set_cache_filename (lines 326-330): op(model=model, latent_image=...).
set_cache_filename ==
    /\ component = "nodes"
    /\ NodeOperation(<<CompileRequest("BatchSizePatcher", "model", "__call__", NoIdentity)>>)

\* SVDSpeedup.speedup (lines 352-361): op.compile(model, ckpt_name=cache_name).
speedup(cache_name) ==
    /\ component = "nodes"
    /\ NodeOperation(<<CompileRequest("SVDSpeedup", "model", "compile", cache_name)>>)

\* OneDiffQuantCheckpointLoaderSimple.onediff_load_checkpoint (lines 567-586).
quant_load_checkpoint(ckpt_name, vae_speedup) ==
    /\ component = "nodes"
    /\ NodeOperation(
        <<CompileRequest("OneDiffQuantCheckpointLoaderSimple", "model", "compile", ckpt_name)>>
        \o VaeRequest("OneDiffQuantCheckpointLoaderSimple", vae_speedup = "enable", ckpt_name))

\* ImageOnlyOneDiffQuantCheckpointLoaderAdvanced.onediff_load_checkpoint (lines 669-686):
\* `if vae_speedup:` tests a non-empty string, so the vae is compiled for both values.
image_only_quant_load_checkpoint(ckpt_name, vae_speedup) ==
    /\ component = "nodes"
    /\ NodeOperation(
        <<CompileRequest("ImageOnlyOneDiffQuantCheckpointLoaderAdvanced", "model", "compile",
                         ckpt_name)>>
        \o VaeRequest("ImageOnlyOneDiffQuantCheckpointLoaderAdvanced", vae_speedup # "",
                      ckpt_name))

----------------------------------------------------------------------------
(* The operations with their inputs, and the specifications *)

Call ==
    \E a \in CallArgs, build \in BuildOutcomes :
        PipelineCall(a.prompt, a.height, a.width, a.cfg, a.latents,
                     a.compile_text_encoder, a.compile_unet, a.compile_vae,
                     a.unrolled, build)

SetCacheSize == \E cache_size \in CacheSizes : set_unet_graphs_cache_size(cache_size)

Run ==
    \E method \in RunMethods, built \in BOOLEAN, ran \in BOOLEAN :
        DeployableRun(method, built, ran)

To == \E target \in TargetDevices : to(target)

LoadSave ==
    \E op \in {"load_graph", "save_graph"}, built \in BOOLEAN, done \in BOOLEAN :
        DeployableLoadSave(op, built, done)

SetGraphFile == \E file_path \in GraphFiles : set_graph_file(file_path)

Next == Call \/ SetCacheSize \/ Run \/ To \/ LoadSave \/ SetGraphFile

Spec == Init /\ [][Next]_vars

\* One OneflowDeployableModule on its own.
ModuleInit == component = "module" /\ InitFields

ModuleNext == Run \/ To \/ LoadSave \/ SetGraphFile

ModuleSpec == ModuleInit /\ [][ModuleNext]_vars

\* Two threads of a host calling one pipeline with compile_unet.
ConcurrentInit == component = "callers" /\ InitFields

Lookup == \E t \in Threads, height \in CallerHeights : CallerLookup(t, height, 512)

Compile == \E t \in Threads, build \in BuildOutcomes : CallerCompile(t, build)

Insert == \E t \in Threads : CallerInsert(t)

ConcurrentNext == Lookup \/ Compile \/ Insert

ConcurrentSpec == ConcurrentInit /\ [][ConcurrentNext]_vars

\* The web UI script over a sequence of runs and checkpoint selections.
WebuiInit == component = "webui" /\ InitFields

SelectCheckpoint == \E ckpt \in Checkpoints : select_checkpoint(ckpt)

RunBegin ==
    \E quantization \in BOOLEAN, compiled \in BOOLEAN : ScriptRunBegin(quantization, compiled)

RunEnter == \E entered \in BOOLEAN : ScriptRunEnter(entered)

RunProcess ==
    \E processed \in BOOLEAN, states \in RuntimeVarStates : ScriptRunProcess(processed, states)

WebuiNext == SelectCheckpoint \/ RunBegin \/ RunEnter \/ RunProcess

WebuiSpec == WebuiInit /\ [][WebuiNext]_vars

\* Two OneflowDeployableModule instances constructed and configured in one
\* process.
InstancesInit == component = "instances" /\ InitFields

Construct ==
    \E i \in Instances, passed \in {"default"} \cup GraphFiles : OneflowDeployableModule(i, passed)

InstanceGetGraph == \E i \in Instances : instance_get_graph(i)

InstanceSetGraphFile ==
    \E i \in Instances, file_path \in GraphFiles : instance_set_graph_file(i, file_path)

InstancesNext == Construct \/ InstanceGetGraph \/ InstanceSetGraphFile

InstancesSpec == InstancesInit /\ [][InstancesNext]_vars

\* A module constructed, configured and called, and a second one made from it
\* with from_existing.  An instance whose options are None is not operated
\* on: get_graph_file on it raises at line 173.
HasOptions(i) == instances[i].options \in OptionsObjects

FromExistingGetGraph == \E i \in Instances : HasOptions(i) /\ instance_get_graph(i)

FromExistingSetGraphFile ==
    \E i \in Instances, file_path \in GraphFiles :
        HasOptions(i) /\ instance_set_graph_file(i, file_path)

InstanceCall == \E i \in Instances : HasOptions(i) /\ instance_call(i)

FromExisting ==
    \E i, existing \in Instances, use_graph_arg \in UseGraphArgs,
       passed \in {"omitted"} \cup GraphFiles :
        from_existing(i, existing, use_graph_arg, passed)

FromExistingNext ==
    \/ Construct
    \/ FromExistingGetGraph
    \/ FromExistingSetGraphFile
    \/ InstanceCall
    \/ FromExisting

FromExistingSpec == InstancesInit /\ [][FromExistingNext]_vars

\* One Script whose check_model_structure_change is called with any model.
ScriptInit == component = "script" /\ InitFields

CheckModelStructureChange == \E model \in Models : model_structure_change(model)

ScriptNext == CheckModelStructureChange

ScriptSpec == ScriptInit /\ [][ScriptNext]_vars

\* The host calling the replacements of set_model_patch_replace on two models
\* over one diffusion model.
HijackInit == component = "hijack" /\ InitFields

IPAdapterSetModelPatchReplace ==
    \E model \in PatchedModels, key \in PatchKeys : set_model_patch_replace_fn_of(model, key)

InstantIDSetModelPatchReplace ==
    \E model \in PatchedModels, key \in PatchKeys, retrieved \in BOOLEAN :
        set_model_patch_replace(model, key, retrieved)

HijackNext == IPAdapterSetModelPatchReplace \/ InstantIDSetModelPatchReplace

HijackSpec == HijackInit /\ [][HijackNext]_vars

\* Code entering and leaving onediff_mock_torch contexts, nested up to MaxDepth.
MockInit == component = "mock" /\ InitFields

MockEnter == onediff_mock_torch_enter

MockBodyImport == \E module \in BodyImports : body_import(module)

MockExit == \E raised \in BOOLEAN : onediff_mock_torch_exit(raised)

MockNext == MockEnter \/ MockBodyImport \/ MockExit

MockSpec == MockInit /\ [][MockNext]_vars

\* A ComfyUI workflow executing nodes of nodes_oneflow_optimizer.py.
NodesInit == component = "nodes" /\ InitFields

DeepCacheConvert == deep_cache_convert

DeepCacheLoadCheckpoint ==
    \E ckpt_name \in NodeCkptNames, vae_speedup \in VaeSpeedups :
        deep_cache_load_checkpoint(ckpt_name, vae_speedup)

SetCacheFilename == set_cache_filename

Speedup == \E cache_name \in CacheNames : speedup(cache_name)

QuantLoadCheckpoint ==
    \E ckpt_name \in NodeCkptNames, vae_speedup \in VaeSpeedups :
        quant_load_checkpoint(ckpt_name, vae_speedup)

ImageOnlyQuantLoadCheckpoint ==
    \E ckpt_name \in NodeCkptNames, vae_speedup \in VaeSpeedups :
        image_only_quant_load_checkpoint(ckpt_name, vae_speedup)

NodesNext ==
    \/ DeepCacheConvert
    \/ DeepCacheLoadCheckpoint
    \/ SetCacheFilename
    \/ Speedup
    \/ QuantLoadCheckpoint
    \/ ImageOnlyQuantLoadCheckpoint

NodesSpec == NodesInit /\ [][NodesNext]_vars

----------------------------------------------------------------------------
(* Properties *)

CacheLen == Cardinality(DOMAIN unet_graphs)

Min(a, b) == IF a <= b THEN a ELSE b
Max(a, b) == IF a >= b THEN a ELSE b

\* The step is a pipeline call that reached the cache step (line 385).
CacheStep ==
    /\ last'.op = "call"
    /\ unet_graphs_lru_cache_time' = unet_graphs_lru_cache_time + 1

\* The keys of hist are pairwise distinct.
DistinctKeys(h) == \A i, j \in 1 .. Len(h) : i # j => h[i].key # h[j].key

\* C1, as stated: over calls that all have the same signature (so the same cache
\* key), the graph compiler is invoked at most once.  Every graph object the
\* pipeline constructs is handed to _compile, so n_unet_graphs counts the
\* invocations.
C1_CompilerInvokedAtMostOnce ==
    (same_sig /\ first_sig # NoSig) => n_unet_graphs <= 1

\* C1, amended: over calls that all have the same signature, at most one graph is
\* ever stored in unet_graphs, it stays there, and every call that completes is
\* served that very object; and a deployable module constructs at most one graph
\* between clears, get_graph returning the held object.
C1_OneGraphPerKey ==
    /\ (same_sig /\ first_sig # NoSig) =>
          /\ n_inserted <= 1
          /\ n_inserted = 1 =>
                LET key == CacheKey(first_sig.height, first_sig.width)
                IN  /\ key \in DOMAIN unet_graphs
                    /\ (last.op = "call" /\ last.compile_unet /\ last.status = "ok")
                          => last.served = unet_graphs[key].graph
    /\ built_since_clear <= 1
    /\ dm_last.path = "graph" => (dm_last.graph # 0 /\ dm_last.graph = dpl_graph)

\* C1 witness: a same-signature run in which a compile failed, the retry stored
\* a graph and a later call hit it.
C1_Witness ==
    /\ same_sig /\ first_sig # NoSig
    /\ n_unet_graphs = 2 /\ n_inserted = 1
    /\ last.op = "call" /\ last.hit /\ last.served.id = 2

\* C2: a miss removes the least recently used entries, and only as many as the
\* new entry needs; the entries that stay are untouched.  And with cache size N
\* set before the first call, after N+1 calls with distinct shapes the first
\* shape is gone and the other N are present.
C2_MissEvictsLeastRecent ==
    (CacheStep /\ ~last'.hit) =>
        LET kept == DOMAIN unet_graphs \cap DOMAIN unet_graphs'
            gone == DOMAIN unet_graphs \ DOMAIN unet_graphs'
        IN  /\ \A e \in gone, k \in kept : unet_graphs[e].time < unet_graphs[k].time
            /\ \A k \in kept : unet_graphs'[k] = unet_graphs[k]
            /\ Cardinality(kept) = Min(CacheLen, Max(unet_graphs_cache_size - 1, 0))

C2_Scenario ==
    (/\ steady /\ unet_graphs_cache_size >= 1
     /\ Len(hist) = unet_graphs_cache_size + 1
     /\ DistinctKeys(hist))
    => /\ hist[1].key \notin DOMAIN unet_graphs
       /\ \A i \in 2 .. Len(hist) : hist[i].key \in DOMAIN unet_graphs

C2_LRUEviction == [][C2_MissEvictsLeastRecent]_vars /\ []C2_Scenario

\* C2 witness: size 2, three distinct shapes requested, the first one evicted.
C2_Witness ==
    /\ steady /\ unet_graphs_cache_size = 2 /\ Len(hist) = 3 /\ DistinctKeys(hist)
    /\ hist[1].key \notin DOMAIN unet_graphs
    /\ CacheLen = 2

\* C3: after every operation the cache holds at most unet_graphs_cache_size
\* entries (stated for the sizes that can hold a set of entries, n >= 0).
C3_SizeWithinCapacity ==
    unet_graphs_cache_size >= 0 => CacheLen <= unet_graphs_cache_size

\* C4: set_unet_graphs_cache_size(n) with 0 <= n below the current number of
\* entries leaves at most n entries, the n most recently used ones.
C4_SetSizeEvictsNow ==
    [][(/\ last'.op = "set_unet_graphs_cache_size"
        /\ unet_graphs_cache_size' >= 0
        /\ unet_graphs_cache_size' < CacheLen) =>
          /\ Cardinality(DOMAIN unet_graphs') <= unet_graphs_cache_size'
          /\ DOMAIN unet_graphs' \subseteq DOMAIN unet_graphs
          /\ \A k \in DOMAIN unet_graphs', e \in DOMAIN unet_graphs \ DOMAIN unet_graphs' :
                unet_graphs[e].time < unet_graphs[k].time]_vars

\* C5: a call whose compile or warmup raises leaves unet_graphs as it was.
C5_FailedCompileLeavesCache ==
    [][(CacheStep /\ last'.status \in {"compile_raises", "warmup_raises"}) =>
          unet_graphs' = unet_graphs]_vars

\* C6: a call with graph use disabled (compile_unet false; use_graph false)
\* changes neither unet_graphs nor the recency counter nor the held graph, and
\* constructs no graph.
C6_DisabledCallsTouchNothing ==
    [][/\ (last'.op = "call" /\ ~last'.compile_unet) =>
              UNCHANGED <<unet_graphs, unet_graphs_lru_cache_time, n_unet_graphs>>
       /\ (dm_last'.op \in RunMethods /\ ~use_graph) =>
              /\ UNCHANGED <<dpl_graph, n_dpl_graphs>>
              /\ dm_last'.path = "eager"]_vars

\* C6 witness: an eager call completed while the cache held a graph.
C6_Witness ==
    /\ last.op = "call" /\ ~last.compile_unet /\ last.status = "ok"
    /\ last.denoise = "eager_unet"
    /\ unet_graphs # EmptyCache

\* C7: with size 1 the calls S1, S2, S1 are three misses, and the third one
\* builds a graph object that is not the first one.  In general a call whose
\* key is not in the dict (never stored, or removed) is served no stored graph:
\* it is a miss served by a graph constructed in that very call.
C7_Scenario ==
    (/\ steady /\ unet_graphs_cache_size = 1 /\ Len(hist) = 3
     /\ hist[1].key = hist[3].key /\ hist[2].key # hist[1].key)
    => /\ ~hist[2].hit /\ ~hist[3].hit
       /\ hist[3].graph \notin {hist[1].graph, hist[2].graph}
       /\ DOMAIN unet_graphs = {hist[3].key}
       /\ unet_graphs[hist[3].key].graph.id = hist[3].graph

C7_AbsentKeyIsCompiled ==
    (CacheStep /\ last'.key \notin DOMAIN unet_graphs) =>
        /\ ~last'.hit
        /\ last'.served # NoGraph =>
              /\ last'.served = last'.built
              /\ last'.served.id > n_unet_graphs
              /\ \A k \in DOMAIN unet_graphs : unet_graphs[k].graph.id # last'.served.id

C7_EvictedKeyIsRecompiled == []C7_Scenario /\ [][C7_AbsentKeyIsCompiled]_vars

\* C7 witness: the scenario has happened.
C7_Witness ==
    /\ steady /\ unet_graphs_cache_size = 1 /\ Len(hist) = 3
    /\ hist[1].key = hist[3].key /\ hist[2].key # hist[1].key
    /\ hist[3].graph = 3

\* C8: the graph that serves a call was compiled for that call's unet input
\* shapes (height, width, batch size, guidance doubling).
C8_ServedGraphHasCallShape ==
    (last.op = "call" /\ last.served # NoGraph) =>
        /\ last.served.height = last.sig.height
        /\ last.served.width = last.sig.width
        /\ last.served.batch = last.sig.batch
        /\ last.served.cfg = last.sig.cfg

\* C9: the graph that serves a call was compiled under that call's
\* unrolled_timesteps option.
C9_ServedGraphHasCallOptions ==
    (last.op = "call" /\ last.served # NoGraph) =>
        ((last.served.kind = "UnrolledDenoiseGraph") <=> last.sig.unrolled)

\* C10: every graph in unet_graphs, and every graph used for denoising, has
\* been compiled and has executed once.
C10_CachedGraphsAreWarm ==
    /\ \A k \in DOMAIN unet_graphs :
          unet_graphs[k].graph.compiled /\ unet_graphs[k].graph.executed
    /\ last.served # NoGraph => (last.served.compiled /\ last.served.executed)

\* C10 witness: a new graph was compiled, warmed up, stored and used.
C10_Witness ==
    /\ last.op = "call" /\ ~last.hit /\ last.built # NoGraph
    /\ last.served = last.built /\ last.built.executed
    /\ last.key \in DOMAIN unet_graphs
    /\ unet_graphs[last.key].graph = last.built

\* The step is a call of apply_model, __call__ or decode.
RunStep == dm_last'.op \in RunMethods

\* C11: when a call with use_graph true fails to compile, the call is served by
\* eager execution, the module is left holding no graph, use_graph is not
\* changed, and the next call with use_graph true builds and compiles again.
C11_FailedCompileIsRetried ==
    [][(RunStep /\ use_graph) =>
         /\ use_graph' = use_graph
         /\ dm_last'.attempted
         /\ dm_last'.status = "compile_failed" =>
                (dm_last'.path = "eager" /\ dpl_graph' = 0)
         /\ dm_last.status = "compile_failed" =>
                (dpl_graph = 0 /\ dm_last'.retry /\ dm_last'.held = 0)]_vars

\* A call that failed to compile was followed by a call that compiled and ran
\* a new graph.
C11_Witness ==
    /\ dm_last.retry
    /\ dm_last.status = "ok"
    /\ dm_last.path = "graph"
    /\ dpl_graph # 0

\* C12: set_graph_file(p) with p other than the configured graph file records p,
\* leaves the module holding no graph and raises _load_graph_first_run; the next
\* call that runs a graph runs a newly constructed one, not the graph held
\* under the old path.
C12_NewGraphFileClearsGraph ==
    [][/\ (dm_last'.op = "set_graph_file" /\ dm_last'.arg # graph_file) =>
             /\ graph_file' = dm_last'.arg
             /\ dpl_graph' = 0
             /\ load_graph_first_run' = TRUE
       /\ (RunStep /\ dm_last.op = "set_graph_file" /\ dpl_graph = 0
             /\ dm_last'.path = "graph") =>
             /\ dm_last'.graph = n_dpl_graphs + 1
             /\ dm_last'.graph # dm_last.held]_vars

\* set_graph_file was given a new path while a graph was held and
\* _load_graph_first_run was lowered.
C12_Witness ==
    /\ dm_last.op = "set_graph_file"
    /\ dm_last.arg = "b.graph"
    /\ dm_last.held # 0
    /\ ~dm_last.first_run
    /\ graph_file = "b.graph"
    /\ dpl_graph = 0
    /\ load_graph_first_run

\* C13: to(device) succeeds when the module holds no built graph or when the
\* device is the one the held graph is on, and in every other case fails with
\* the device error, moving nothing.
C13_ToFailsOnlyOnDeviceMismatch ==
    [][(dm_last'.op = "to" /\ dm_last'.arg # "None") =>
         /\ dm_last'.status = "ok" <=> (dpl_graph = 0 \/ dm_last'.arg = device)
         /\ dm_last'.status = "ok" => device' = dm_last'.arg
         /\ dm_last'.status # "ok" =>
                (dm_last'.status = "RuntimeError" /\ device' = device)
         /\ dpl_graph' = dpl_graph]_vars

\* to("cuda") was refused on a module that holds a graph on the cpu.
C13_Witness ==
    /\ dm_last.op = "to"
    /\ dm_last.arg = "cuda"
    /\ dm_last.status = "RuntimeError"
    /\ dm_last.held # 0
    /\ device = "cpu"

\* C14: a load_graph that raises on a module holding no graph leaves the module
\* holding no graph, as before the call.
C14_FailedLoadLeavesUnbuilt ==
    [][(dm_last'.op = "load_graph" /\ dm_last'.status # "ok" /\ dpl_graph = 0) =>
         dpl_graph' = 0]_vars

\* C16: two callers that miss on the same key never compile for it at the same
\* time: the second waits for the graph of the first.
C16_OneCompilationInFlight ==
    \A t1, t2 \in Threads :
        (callers[t1].pc = "compiling" /\ callers[t2].pc = "compiling"
            /\ callers[t1].key = callers[t2].key) => t1 = t2

\* C17: whenever process_images executes, the compiled unet holds the weights
\* of the selected checkpoint.
C17_ProcessesWithSelectedWeights ==
    run_pc = "processing" => compiled_unet.weights = sd_model_checkpoint

\* C18: a run whose quantization flag is not the one the compiled unet was
\* compiled under does not fail in its bookkeeping, and when it goes on it has
\* recompiled the unet under its own flag.
C18_FlagChangeRecompiles ==
    [][(run_last'.op = "run_begin" /\ run_last'.flag_changed) =>
         /\ run_last'.status # "TypeError"
         /\ run_last'.status = "ok" =>
                (run_last'.recompiled /\ compiled_unet'.quantized = run_quantization')]_vars

\* C19: shared.sd_model.model.diffusion_model is the compiled unet inside the
\* with statement around process_images and nowhere else: it is the original
\* model whenever run is not in progress, however the run ended.
C19_OriginalModelRestored ==
    /\ run_pc = "idle" => diffusion_model = "original"
    /\ run_pc \in {"entered", "processing"} => diffusion_model = "compiled"

\* process_images raised and the run is over.
C19_Witness ==
    /\ run_pc = "idle"
    /\ run_last.op = "run_process"
    /\ run_last.status = "process_images_raises"
    /\ diffusion_model = "original"
    /\ compiled_unet # NoUnet

\* C20: a pipeline call rejected for its arguments (prompt of a wrong type,
\* height or width not divisible by 8, latents of a wrong shape) has constructed
\* no graph and leaves the unet graph cache and its counter as they were.
C20_RejectedBeforeAnyGraph ==
    [][(last'.op = "call"
          /\ last'.status \in {"ValueError_prompt", "ValueError_height_width",
                                "ValueError_latents"}) =>
         UNCHANGED <<text_encoder_graph, vae_graph, n_unet_graphs, unet_graphs,
                     unet_graphs_lru_cache_time>>]_vars

----------------------------------------------------------------------------
(* C21: every request a node makes of OptimizerScheduler.compile carries a
   module identity, that is a ckpt_name; no compile request is made without
   one.  ModuleDeepCacheSpeedup.deep_cache_convert calls op.compile(model). *)
C21_EveryCompileRequestHasIdentity ==
    \A i \in 1 .. Len(compile_requests) :
        compile_requests[i].via = "compile" => compile_requests[i].ckpt_name # NoIdentity

----------------------------------------------------------------------------
(* C22: on a miss the evicted entries are removed before the construction of
   the new graph begins.  With every step of the cache step visible: an entry
   leaves the cache only in the lookup step of a thread, which constructs no
   graph and stores none, and leaves that thread without a graph of its own;
   the steps that construct or store the new graph remove no entry. *)
C22_EvictionPrecedesConstruction ==
    [][(\E k \in DOMAIN unet_graphs : k \notin DOMAIN unet_graphs')
        => /\ n_unet_graphs' = n_unet_graphs
           /\ DOMAIN unet_graphs' \subseteq DOMAIN unet_graphs
           /\ \E t \in Threads :
                  /\ callers[t].pc = "idle"
                  /\ callers'[t].pc = "compiling"
                  /\ callers'[t].graph = NoGraph
                  /\ callers'[t].key \notin DOMAIN unet_graphs']_vars

\* A miss evicted the first graph and its own graph, the second, was stored
\* afterwards: the cache holds the second graph alone.
C22_Witness ==
    \E t, u \in Threads :
        /\ callers[t].pc = "idle" /\ callers[u].pc = "idle"
        /\ callers[t].graph # NoGraph /\ callers[t].graph.id = 1
        /\ callers[u].graph # NoGraph /\ callers[u].graph.id = 2
        /\ callers[t].key # callers[u].key
        /\ DOMAIN unet_graphs = {callers[u].key}
        /\ unet_graphs[callers[u].key].graph = callers[u].graph

----------------------------------------------------------------------------
(* C23: a call with compile_unet false whose arguments pass the checks of
   lines 301-309 and 361-362 completes, and denoises with the eager unet and
   no compiled unet graph, whatever the other flags are.  With
   unrolled_timesteps the call reads unrolled_timesteps_graph, which no branch
   bound (line 426). *)
C23_EagerCallCompletes ==
    [][(/\ last'.op = "call"
        /\ ~last'.compile_unet
        /\ last'.status \notin {"ValueError_prompt", "ValueError_height_width",
                                 "ValueError_latents"})
        => /\ last'.status = "ok"
           /\ last'.denoise = "eager_unet"
           /\ last'.served = NoGraph]_vars

----------------------------------------------------------------------------
(* C24: a call that finds its key in the cache changes only the recency value
   of that entry, which becomes the counter: the keys, every stored graph and
   the recency of the other entries stay, nothing is constructed, stored or
   evicted, also when the cache holds more entries than its size allows. *)
C24_HitChangesOnlyRecency ==
    [][(CacheStep /\ last'.key \in DOMAIN unet_graphs)
        => /\ DOMAIN unet_graphs' = DOMAIN unet_graphs
           /\ \A k \in DOMAIN unet_graphs :
                  /\ unet_graphs'[k].graph = unet_graphs[k].graph
                  /\ k # last'.key => unet_graphs'[k].time = unet_graphs[k].time
           /\ unet_graphs'[last'.key].time = unet_graphs_lru_cache_time'
           /\ n_unet_graphs' = n_unet_graphs
           /\ n_inserted' = n_inserted
           /\ unet_graphs_cache_size' = unet_graphs_cache_size]_vars

\* A hit on a cache that holds more entries than its size.
C24_Witness ==
    /\ last.op = "call" /\ last.hit
    /\ CacheLen = 2
    /\ CacheLen > unet_graphs_cache_size
    /\ unet_graphs[last.key].time = unet_graphs_lru_cache_time

----------------------------------------------------------------------------
(* C25: a miss under a size n >= 1 ends its eviction loop with fewer than n
   entries left, so that the cache holds at most n entries, the requested key
   among them, once the graph is stored (and fewer than n when the compilation
   fails); a miss under a size n <= 0 deletes every entry and raises before
   any graph is constructed or stored. *)
C25_MissMakesRoomOrRaises ==
    [][(CacheStep /\ last'.key \notin DOMAIN unet_graphs)
        => IF unet_graphs_cache_size >= 1
           THEN /\ last'.status # "ValueError_min"
                /\ Cardinality(DOMAIN unet_graphs' \ {last'.key}) < unet_graphs_cache_size
                /\ DOMAIN unet_graphs' \ {last'.key} \subseteq DOMAIN unet_graphs
                /\ last'.status = "ok"
                      => /\ last'.key \in DOMAIN unet_graphs'
                         /\ Cardinality(DOMAIN unet_graphs') <= unet_graphs_cache_size
                /\ last'.status # "ok" => last'.key \notin DOMAIN unet_graphs'
           ELSE /\ last'.status = "ValueError_min"
                /\ unet_graphs' = EmptyCache
                /\ n_unet_graphs' = n_unet_graphs
                /\ n_inserted' = n_inserted]_vars

\* A miss under a size of zero or less found two entries, deleted them and
\* raised.
C25_Witness ==
    /\ unet_graphs_cache_size <= 0
    /\ last.op = "call" /\ last.status = "ValueError_min"
    /\ n_inserted = 2 /\ n_unet_graphs = 2
    /\ unet_graphs = EmptyCache

----------------------------------------------------------------------------
(* C26: the recency counter grows by exactly one on every call with
   compile_unet whose arguments pass the checks, and never decreases; the
   recency values of the cache entries are pairwise distinct and none exceeds
   the counter; after a successful call of that kind the recency value of its
   key is the counter. *)
C26_RecencyValues ==
    /\ [](\A k, j \in DOMAIN unet_graphs :
            /\ k # j => unet_graphs[k].time # unet_graphs[j].time
            /\ unet_graphs[k].time <= unet_graphs_lru_cache_time)
    /\ [][/\ unet_graphs_lru_cache_time' >= unet_graphs_lru_cache_time
           /\ (/\ last'.op = "call"
               /\ last'.compile_unet
               /\ last'.status \notin {"ValueError_prompt", "ValueError_height_width",
                                        "ValueError_latents"})
               => /\ unet_graphs_lru_cache_time' = unet_graphs_lru_cache_time + 1
                  /\ last'.status = "ok"
                        => /\ last'.key \in DOMAIN unet_graphs'
                           /\ unet_graphs'[last'.key].time = unet_graphs_lru_cache_time']_vars

\* After three calls a hit made the older of two entries the most recent one.
C26_Witness ==
    /\ last.op = "call" /\ last.status = "ok" /\ last.hit
    /\ unet_graphs_lru_cache_time = 3
    /\ CacheLen = 2
    /\ unet_graphs[last.key].time = 3
    /\ unet_graphs[last.key].graph.id = 1

----------------------------------------------------------------------------
(* C27: set_graph_file(p) with p equal to the current graph file, also when
   both are None or both are empty, is a no-op: the held graph, the
   load-first-run flag and the options stay as they were.  Line 160 returns
   early only for a p that is truthy. *)
C27_SameGraphFileIsNoOp ==
    [][(dm_last'.op = "set_graph_file" /\ dm_last'.arg = graph_file)
        => /\ dpl_graph' = dpl_graph
           /\ load_graph_first_run' = load_graph_first_run
           /\ graph_file' = graph_file]_vars

----------------------------------------------------------------------------
(* C28: the graph file is configured per instance: set_graph_file on one
   OneflowDeployableModule never changes what get_graph_file returns on
   another instance, also when the instances were constructed without
   options.  Such instances share the one default dict of line 18. *)
C28_GraphFileIsPerInstance ==
    [][inst_last'.op = "set_graph_file"
        => \A j \in Instances \ {inst_last'.instance} :
              instances[j] # NotConstructed
                => /\ instances'[j] = instances[j]
                   /\ options_objects'[instances[j].options]
                        = options_objects[instances[j].options]]_vars

----------------------------------------------------------------------------
(* C29: when to(device) fails with the device error nothing has been moved
   or changed: the wrapped modules are on the device they were on, the held
   graph is the same object, and the graph file, the flags and the count of
   constructed graphs are as before. *)
C29_FailedToChangesNothing ==
    [][(dm_last'.op = "to" /\ dm_last'.status = "RuntimeError")
        => /\ dpl_graph # 0
           /\ UNCHANGED <<device, dpl_graph, use_graph, graph_file, load_graph_first_run,
                          n_dpl_graphs, built_since_clear>>]_vars

\* to("cpu") was refused on a module whose graph was built on cuda.
C29_Witness ==
    /\ dm_last.op = "to"
    /\ dm_last.arg = "cpu"
    /\ dm_last.status = "RuntimeError"
    /\ device = "cuda"
    /\ dpl_graph # 0
    /\ dpl_graph = dm_last.held

----------------------------------------------------------------------------
(* C30: a run whose checkpoint name, with the quantization suffix, is
   compiled_ckpt_name and whose model type is current_type calls no
   compile_unet and copies no weights, and leaves compiled_unet and
   compiled_ckpt_name as they were; repeated runs on an unchanged model
   therefore compile once at most. *)
C30_UnchangedModelRunsCompiledUnet ==
    [][\A quantization, compiled \in BOOLEAN :
          (/\ ScriptRunBegin(quantization, compiled)
           /\ CkptName(sd_model_checkpoint, quantization) = compiled_ckpt_name
           /\ ModelType(sd_model_checkpoint) = current_type)
          => /\ run_last'.status = "ok"
             /\ ~run_last'.recompiled
             /\ ~run_last'.copied
             /\ compiled_unet' = compiled_unet
             /\ compiled_ckpt_name' = compiled_ckpt_name
             /\ current_type' = current_type
             /\ convname_dict' = convname_dict]_vars

\* A second run on the checkpoint the unet was compiled for has entered
\* UnetCompileCtx without compiling or copying.
C30_Witness ==
    /\ run_last.op = "run_begin" /\ run_last.status = "ok"
    /\ ~run_last.recompiled /\ ~run_last.copied
    /\ run_pc = "entered"
    /\ compiled_unet # NoUnet
    /\ compiled_ckpt_name = CkptName(sd_model_checkpoint, run_quantization)
    /\ current_type = ModelType(sd_model_checkpoint)
    /\ diffusion_model = "compiled"

----------------------------------------------------------------------------
(* C31: after every Script.run that returns normally compiled_ckpt_name is
   the checkpoint name of that run, the selected checkpoint with the
   quantization suffix if asked, whether the run compiled or only copied
   weights.  The name is assigned at line 210 only, under need_recompile. *)
C31_CkptNameIsThatOfTheRun ==
    [][(run_last'.op = "run_process" /\ run_last'.status = "ok")
        => compiled_ckpt_name' = CkptName(sd_model_checkpoint, run_quantization)]_vars

----------------------------------------------------------------------------
(* C32: check_model_structure_change(model) returns true exactly when no type
   is recorded or one of the four flags of the model differs from the recorded
   one; when it has returned the recorded type is the model's four flags, so
   that the same call made again at once returns false. *)
C32_StructureChangeIsFlagChange ==
    [][check_last'.op = "check_model_structure_change"
        => /\ check_last'.returned
                <=> \/ recorded_type = NoType
                    \/ \E flag \in ModelFlags :
                          recorded_type[flag] # check_last'.model[flag]
           /\ DOMAIN recorded_type' = ModelFlags
           /\ \A flag \in ModelFlags : recorded_type'[flag] = check_last'.model[flag]
           /\ ~is_changed(recorded_type', check_last'.model)]_vars

\* A call found a recorded type that differs from the model in the last flag
\* only, returned true and recorded the model's flags.
C32_Witness ==
    /\ check_last.op = "check_model_structure_change"
    /\ check_last.returned
    /\ check_last.found # NoType
    /\ check_last.found["is_ssd"] # check_last.model["is_ssd"]
    /\ \A flag \in ModelFlags \ {"is_ssd"} : check_last.found[flag] = check_last.model[flag]
    /\ recorded_type = get_model_type(check_last.model)

----------------------------------------------------------------------------
(* C33: from_existing(existing, use_graph, dynamic, options) makes a module
   around the torch and oneflow modules of existing; the new module holds the
   very graph object of existing when use_graph is truthy and no graph when it
   is falsy or omitted, has existing's load-first-run flag in both cases, and
   existing is left as it was. *)
C33_FromExistingSharesGraph ==
    [][(inst_last'.op = "from_existing" /\ instances[inst_last'.instance] = NotConstructed)
        => \A existing \in Instances \ {inst_last'.instance} :
              /\ instances[existing] # NotConstructed
              /\ instances'[existing] = instances[existing]
              /\ options_objects'[instances[existing].options]
                    = options_objects[instances[existing].options]
              /\ instances'[inst_last'.instance].modules = instances[existing].modules
              /\ instances'[inst_last'.instance].dpl_graph
                    = IF inst_last'.arg = "True" THEN instances[existing].dpl_graph ELSE 0
              /\ instances'[inst_last'.instance].load_graph_first_run
                    = instances[existing].load_graph_first_run]_vars

\* from_existing with use_graph true on a module that holds a graph and has
\* lowered its first-run flag: both modules hold that graph, flag lowered.
C33_Witness ==
    /\ inst_last.op = "from_existing"
    /\ inst_last.arg = "True"
    /\ \E existing \in Instances \ {inst_last.instance} :
          /\ instances[existing].dpl_graph # 0
          /\ instances[inst_last.instance].dpl_graph = instances[existing].dpl_graph
          /\ instances[inst_last.instance].modules = instances[existing].modules
          /\ ~instances[existing].load_graph_first_run
          /\ ~instances[inst_last.instance].load_graph_first_run

----------------------------------------------------------------------------
(* C34: a checkpoint loader node that takes vae_speedup compiles the vae if
   and only if vae_speedup is "enable"; with "disable" the vae of
   load_checkpoint is returned as it is.  The image-only loader tests
   `if vae_speedup:` (line 683), which holds for both strings. *)
C34_VaeCompiledIffEnabled ==
    [][\A ckpt_name \in NodeCkptNames, vae_speedup \in VaeSpeedups :
          (\/ deep_cache_load_checkpoint(ckpt_name, vae_speedup)
           \/ quant_load_checkpoint(ckpt_name, vae_speedup)
           \/ image_only_quant_load_checkpoint(ckpt_name, vae_speedup))
          => ((\E k \in (Len(compile_requests) + 1) .. Len(compile_requests') :
                  compile_requests'[k].module = "vae")
              <=> vae_speedup = "enable")]_vars

----------------------------------------------------------------------------
(* C35: when a oneflow replacement of set_model_patch_replace has returned
   for a key, the attn2 table of the model's transformer_options has an entry
   for that key, whether or not the key was in the patch cache or in the table
   before.  InstantID returns at line 30, before the table is written. *)
C35_ReturnedKeyIsInTable ==
    [][(hijack_last'.op \in {"set_model_patch_replace_fn_of", "_set_model_patch_replace"}
        /\ hijack_last'.status = "returned")
        => patches_replace'[hijack_last'.model][hijack_last'.key] # 0]_vars

----------------------------------------------------------------------------
(* C36: when an onediff_mock_torch context has exited, normally or by an
   exception of its body, flow.__version__ is what it was before the context
   was entered.  On an exception the restore of lines 23-24 is not reached. *)
C36_FlowVersionRestoredOnExit ==
    [][\A raised \in BOOLEAN :
          onediff_mock_torch_exit(raised) => flow_version' = mock_last'.entered_with]_vars

====
